---- MODULE Spec2Model ----
(***************************************************************************)
(* A model of bin/update_gff.py: GffUpdater loads an alignment table,      *)
(* then for each GFF3 file runs three passes: _find_root_features          *)
(* (hierarchy discovery), _update_features (classification and coordinate  *)
(* conversion) and _output_features (emission of the updated and removed   *)
(* files).                                                                 *)
(*                                                                         *)
(* A GFF3 line is a record [kind, seqid, start, end, ID, Parent]: kind is  *)
(* "blank", "header" (a '#' line), "region" (a '#' line starting with      *)
(* ##sequence-region), "fasta" (the ##FASTA line) or "feature"; seqid,     *)
(* start and end are columns 1, 4 and 5, and ID / Parent are the values    *)
(* the attribute scan of column 9 finds (NoAttr when the key is absent).   *)
(* Line numbers are 0-based as in the program; a Python list l is a        *)
(* sequence whose element l[n] is l[n + 1] here, and a dict is a function  *)
(* whose DOMAIN is its key set.                                            *)
(***************************************************************************)
EXTENDS Integers, Sequences, FiniteSets, TLC

VARIABLES
    source,                  \* what is handed to read_alignment_list_tsv: "path" or "stream"
    srcRecords,              \* the records of the alignment TSV
    srcOpen,                 \* whether a handle on the alignment source is open
    alignment_list,          \* self.alignment_list
    alignment_dict,          \* self.alignment_dict
    gff_files,               \* args.gff_files: the content of each file, in argv order
    fileIdx,                 \* how many files the main loop has started
    pc,                      \* where the program is
    err,                     \* the exception that ended the run, or "none"
    has_fasta,               \* self.has_fasta
    gff_line_root_list,      \* self.gff_line_root_list
    gff_root_line_dict,      \* self.gff_root_line_dict
    gff_id_line,             \* gff_id_line of _find_root_features
    feature_count,           \* feature_count of _find_root_features
    gff_line_status_dict,    \* self.gff_line_status_dict
    gff_line_list,           \* self.gff_line_list
    gff_converted_line_dict, \* self.gff_converted_line_dict
    sequence_regions,        \* self.sequence_regions
    updated_count,           \* updated_count of _output_features
    removed_count,           \* removed_count of _output_features
    disk                     \* per input file: its two output files, or "absent"

vars == <<source, srcRecords, srcOpen, alignment_list, alignment_dict, gff_files,
          fileIdx, pc, err, has_fasta, gff_line_root_list, gff_root_line_dict,
          gff_id_line, feature_count, gff_line_status_dict, gff_line_list,
          gff_converted_line_dict, sequence_regions, updated_count,
          removed_count, disk>>

(***************************************************************************)
(* Disposition tags.                                                       *)
(***************************************************************************)
HEADER == 0
KEEP == 1
SEQUENCE_REMOVED == 2
POSITION_REMOVED == 3
SEQUENCE_REGION == 4

(***************************************************************************)
(* Dicts.                                                                  *)
(***************************************************************************)
EmptyDict == << >>

Put(d, k, v) == [x \in DOMAIN d \cup {k} |-> IF x = k THEN v ELSE d[x]]

\* defaultdict(list): d[k].append(v)
AppendTo(d, k, v) == Put(d, k, IF k \in DOMAIN d THEN Append(d[k], v) ELSE <<v>>)

(***************************************************************************)
(* Lines.                                                                  *)
(***************************************************************************)
NoAttr == ""

Feature(seqid, start, end, id, parent) ==
    [kind |-> "feature", seqid |-> seqid, start |-> start, end |-> end,
     ID |-> id, Parent |-> parent]

Comment(kind) ==
    [kind |-> kind, seqid |-> "", start |-> 0, end |-> 0, ID |-> NoAttr, Parent |-> NoAttr]

\* len(line.strip()) == 0
IsBlank(line) == line.kind = "blank"

\* line[0] == '#'
IsComment(line) == line.kind \in {"header", "region", "fasta"}

\* line.strip() == '##FASTA'
IsFasta(line) == line.kind = "fasta"

\* line_strip.startswith('##sequence-region')
IsRegion(line) == line.kind = "region"

Record(old_id, old_start, old_end, new_id, new_start, new_end) ==
    [old_id |-> old_id, old_start |-> old_start, old_end |-> old_end,
     new_id |-> new_id, new_start |-> new_start, new_end |-> new_end]

(***************************************************************************)
(* GffUpdater.__init__ and read_alignment_list_tsv.                        *)
(***************************************************************************)
\* alignment_dict[a[0]].append(a) for a in alignment_list
RECURSIVE BuildDict(_, _)
BuildDict(list, d) ==
    IF list = << >> THEN d
    ELSE BuildDict(Tail(list), AppendTo(d, Head(list).old_id, Head(list)))

\* isinstance(alignment_list_tsv_file, str): line 71 then reads the .name of a str
Construct ==
    /\ pc = "construct"
    /\ IF source = "path"
       THEN /\ err' = "AttributeError"
            /\ pc' = "error"
            /\ UNCHANGED <<srcOpen, alignment_list, alignment_dict>>
       ELSE /\ alignment_list' = srcRecords
            /\ alignment_dict' = BuildDict(srcRecords, EmptyDict)
            /\ pc' = "main"
            /\ UNCHANGED <<srcOpen, err>>
    /\ UNCHANGED <<source, srcRecords, gff_files, fileIdx, has_fasta,
                   gff_line_root_list, gff_root_line_dict, gff_id_line, feature_count,
                   gff_line_status_dict, gff_line_list, gff_converted_line_dict,
                   sequence_regions, updated_count, removed_count, disk>>

(***************************************************************************)
(* The main loop and GffUpdater.update.                                    *)
(***************************************************************************)
Update ==
    /\ pc = "main"
    /\ fileIdx < Len(gff_files)
    /\ fileIdx' = fileIdx + 1
    /\ has_fasta' = FALSE
    /\ pc' = "find"
    /\ UNCHANGED <<source, srcRecords, srcOpen, alignment_list, alignment_dict,
                   gff_files, err, gff_line_root_list, gff_root_line_dict,
                   gff_id_line, feature_count, gff_line_status_dict, gff_line_list,
                   gff_converted_line_dict, sequence_regions, updated_count,
                   removed_count, disk>>

Exit ==
    /\ pc = "main"
    /\ fileIdx = Len(gff_files)
    /\ pc' = "done"
    /\ UNCHANGED <<source, srcRecords, srcOpen, alignment_list, alignment_dict,
                   gff_files, fileIdx, err, has_fasta, gff_line_root_list,
                   gff_root_line_dict, gff_id_line, feature_count,
                   gff_line_status_dict, gff_line_list, gff_converted_line_dict,
                   sequence_regions, updated_count, removed_count, disk>>

\* the file self.gff_file names
gff_file == gff_files[fileIdx]

(***************************************************************************)
(* _find_root_features.                                                    *)
(***************************************************************************)
FindStart ==
    [root_list |-> << >>, root_dict |-> EmptyDict, id_line |-> EmptyDict,
     fasta |-> FALSE, num |-> 0, count |-> 0, err |-> "none", stop |-> FALSE]

\* FindComment without the break at ##FASTA: the pass reads on into the FASTA part
FindCommentNoBreak(st, line) ==
    [st EXCEPT !.root_list = Append(@, st.num),
               !.root_dict = AppendTo(@, st.num, st.num),
               !.fasta = @ \/ IsFasta(line),
               !.num = @ + 1]

\* the body of the loop for one '#' line
FindComment(st, line) ==
    LET st1 == [st EXCEPT !.root_list = Append(@, st.num),
                          !.root_dict = AppendTo(@, st.num, st.num)]
    IN IF IsFasta(line)
       THEN [st1 EXCEPT !.fasta = TRUE, !.stop = TRUE]
       ELSE [st1 EXCEPT !.num = @ + 1]

\* FindFeature taking a line with an undeclared Parent for a root of its own
FindFeatureLenient(st, line) ==
    LET ids == IF line.ID # NoAttr THEN Put(st.id_line, line.ID, st.num) ELSE st.id_line
        declared == /\ line.Parent # NoAttr
                    /\ line.Parent \in DOMAIN ids
                    /\ ids[line.Parent] < Len(st.root_list)
        root == IF declared THEN st.root_list[ids[line.Parent] + 1] ELSE st.num
    IN [st EXCEPT !.id_line = ids,
                  !.root_list = Append(@, root),
                  !.root_dict = AppendTo(@, root, st.num),
                  !.count = @ + 1,
                  !.num = @ + 1]

\* the body of the loop for one feature line
FindFeature(st, line) ==
    LET ids == IF line.ID # NoAttr THEN Put(st.id_line, line.ID, st.num) ELSE st.id_line
        st1 == [st EXCEPT !.id_line = ids]
    IN IF line.Parent # NoAttr
       THEN IF line.Parent \notin DOMAIN ids
            THEN [st1 EXCEPT !.err = "KeyError", !.stop = TRUE]
            ELSE IF ids[line.Parent] >= Len(st.root_list)
            THEN [st1 EXCEPT !.err = "IndexError", !.stop = TRUE]
            ELSE LET root == st.root_list[ids[line.Parent] + 1]
                 IN [st1 EXCEPT !.root_list = Append(@, root),
                                !.root_dict = AppendTo(@, root, st.num),
                                !.count = @ + 1,
                                !.num = @ + 1]
       ELSE [st1 EXCEPT !.root_list = Append(@, st.num),
                        !.root_dict = AppendTo(@, st.num, st.num),
                        !.count = @ + 1,
                        !.num = @ + 1]

FindLine(st, line) ==
    IF IsBlank(line) THEN st
    ELSE IF IsComment(line) THEN FindComment(st, line)
    ELSE FindFeature(st, line)

RECURSIVE FindLoop(_, _)
FindLoop(st, lines) ==
    IF lines = << >> \/ st.stop THEN st
    ELSE FindLoop(FindLine(st, Head(lines)), Tail(lines))

FindRootFeatures ==
    /\ pc = "find"
    /\ LET st == FindLoop(FindStart, gff_file)
       IN /\ gff_line_root_list' = st.root_list
          /\ gff_root_line_dict' = st.root_dict
          /\ gff_id_line' = st.id_line
          /\ feature_count' = st.count
          /\ has_fasta' = st.fasta
          /\ err' = st.err
          /\ pc' = IF st.err = "none" THEN "update" ELSE "error"
    /\ UNCHANGED <<source, srcRecords, srcOpen, alignment_list, alignment_dict,
                   gff_files, fileIdx, gff_line_status_dict, gff_line_list,
                   gff_converted_line_dict, sequence_regions, updated_count,
                   removed_count, disk>>

(***************************************************************************)
(* _update_features.                                                       *)
(***************************************************************************)
Range(seq) == {seq[i] : i \in DOMAIN seq}

\* Covers with the start of the block counted in
CoversFromStart(m, p) == m.old_start <= p /\ p <= m.old_end

\* lambda m: m[1] < p and p <= m[2]
Covers(m, p) == m.old_start < p /\ p <= m.old_end

\* MarkGroup sparing the members already tagged KEEP
MarkGroupNoOverwrite(status, members, tag) ==
    [x \in DOMAIN status \cup Range(members) |->
        IF x \in Range(members) /\ (x \notin DOMAIN status \/ status[x] # KEEP)
        THEN tag
        ELSE status[x]]

\* for lc in self.gff_root_line_dict[...]: self.gff_line_status_dict[lc] = tag
MarkGroup(status, members, tag) ==
    [x \in DOMAIN status \cup Range(members) |->
        IF x \in Range(members) THEN tag ELSE status[x]]

\* the group of line number num: gff_root_line_dict[gff_line_root_list[num]]
GroupOf(num) == gff_root_line_dict[gff_line_root_list[num + 1]]

\* tokens after lines 169-171, joined again
Converted(line, mappings, start_mapping, end_mapping) ==
    [line EXCEPT !.seqid = mappings[1].new_id,
                 !.start = line.start - start_mapping[1].old_start + start_mapping[1].new_start,
                 !.end = line.end - end_mapping[1].old_start + end_mapping[1].new_start]

UpdateStart ==
    [status |-> EmptyDict, line_list |-> << >>, converted |-> EmptyDict,
     num |-> 0, stop |-> FALSE]

\* the body of the loop for one '#' line
UpdateComment(st, line) ==
    LET st1 == [st EXCEPT !.converted = Put(@, st.num, line)]
    IN IF IsRegion(line)
       THEN [st1 EXCEPT !.status = Put(@, st.num, SEQUENCE_REGION),
                        !.line_list = Append(@, line),
                        !.num = @ + 1]
       ELSE IF IsFasta(line)
       THEN [st1 EXCEPT !.stop = TRUE]
       ELSE [st1 EXCEPT !.status = Put(@, st.num, HEADER),
                        !.line_list = Append(@, line),
                        !.num = @ + 1]

\* lines 158-176: the line is classified
Classify(st, line) ==
    IF line.seqid \in DOMAIN alignment_dict
    THEN LET mappings == alignment_dict[line.seqid]
             CoversStart(m) == Covers(m, line.start)
             CoversEnd(m) == Covers(m, line.end)
             start_mapping == SelectSeq(mappings, CoversStart)
             end_mapping == SelectSeq(mappings, CoversEnd)
         IN IF Len(start_mapping) # 1 \/ Len(end_mapping) # 1
            THEN [st EXCEPT !.status = MarkGroup(@, GroupOf(st.num), POSITION_REMOVED)]
            ELSE [st EXCEPT !.status = Put(@, st.num, KEEP),
                            !.converted = Put(@, st.num,
                                Converted(line, mappings, start_mapping, end_mapping))]
    ELSE [st EXCEPT !.status = MarkGroup(@, GroupOf(st.num), SEQUENCE_REMOVED)]

\* UpdateFeature classifying a line again that a sibling has removed
UpdateFeatureNoGuard(st, line) ==
    [Classify(st, line) EXCEPT !.line_list = Append(@, line), !.num = @ + 1]

\* the body of the loop for one feature line
UpdateFeature(st, line) ==
    LET st1 == IF st.num \notin DOMAIN st.status \/ st.status[st.num] = KEEP
               THEN Classify(st, line)
               ELSE st
    IN [st1 EXCEPT !.line_list = Append(@, line), !.num = @ + 1]

UpdateLine(st, line) ==
    IF IsBlank(line) THEN st
    ELSE IF IsComment(line) THEN UpdateComment(st, line)
    ELSE UpdateFeature(st, line)

RECURSIVE UpdateLoop(_, _)
UpdateLoop(st, lines) ==
    IF lines = << >> \/ st.stop THEN st
    ELSE UpdateLoop(UpdateLine(st, Head(lines)), Tail(lines))

UpdateFeatures ==
    /\ pc = "update"
    /\ LET st == UpdateLoop(UpdateStart, gff_file)
       IN /\ gff_line_status_dict' = st.status
          /\ gff_line_list' = st.line_list
          /\ gff_converted_line_dict' = st.converted
    /\ pc' = "output"
    /\ UNCHANGED <<source, srcRecords, srcOpen, alignment_list, alignment_dict,
                   gff_files, fileIdx, err, has_fasta, gff_line_root_list,
                   gff_root_line_dict, gff_id_line, feature_count, sequence_regions,
                   updated_count, removed_count, disk>>

(***************************************************************************)
(* _output_sequence_region and _output_features.                           *)
(***************************************************************************)
Min(S) == CHOOSE x \in S : \A y \in S : x <= y

Max(S) == CHOOSE x \in S : \A y \in S : x >= y

\* '##sequence-region %s %d %d\n' % (new_id, min(pos) + 1, max(pos))
RegionLine(new_id, pos) ==
    [kind |-> "region", seqid |-> new_id, start |-> Min(pos) + 1, end |-> Max(pos),
     ID |-> NoAttr, Parent |-> NoAttr]

OutputSequenceRegion(list) ==
    [new_id \in {a.new_id : a \in Range(list)} |->
        LET alignments == {a \in Range(list) : a.new_id = new_id}
        IN RegionLine(new_id, {a.new_start : a \in alignments}
                              \cup {a.new_end : a \in alignments})]

OutputStart ==
    [updated |-> << >>, removed |-> << >>, updated_count |-> 0, removed_count |-> 0,
     wrote |-> {}]

\* KeepLines writing the region line before every KEEP line
KeepLinesAlways(st, regions, converted) == <<regions[converted.seqid], converted>>

\* the lines a KEEP line adds to the updated file
KeepLines(st, regions, converted) ==
    IF converted.seqid \notin st.wrote
    THEN <<regions[converted.seqid], converted>>
    ELSE <<converted>>

\* OutputLine counting a header line as an updated one
OutputLineCountingHeaders(st, regions, lc) ==
    LET status == gff_line_status_dict[lc]
    IN IF status = KEEP
       THEN LET Scaffold == gff_converted_line_dict[lc].seqid
            IN [st EXCEPT !.updated = @ \o KeepLines(st, regions, gff_converted_line_dict[lc]),
                          !.wrote = @ \cup {Scaffold},
                          !.updated_count = @ + 1]
       ELSE IF status = HEADER
       THEN [st EXCEPT !.updated = Append(@, gff_converted_line_dict[lc]),
                       !.updated_count = @ + 1]
       ELSE IF status = POSITION_REMOVED \/ status = SEQUENCE_REMOVED
       THEN [st EXCEPT !.removed = Append(@, gff_line_list[lc + 1]),
                       !.removed_count = @ + 1]
       ELSE st

\* the body of the loop of _output_features for line number lc
OutputLine(st, regions, lc) ==
    LET status == gff_line_status_dict[lc]
    IN IF status = KEEP
       THEN LET Scaffold == gff_converted_line_dict[lc].seqid
            IN [st EXCEPT !.updated = @ \o KeepLines(st, regions, gff_converted_line_dict[lc]),
                          !.wrote = @ \cup {Scaffold},
                          !.updated_count = @ + 1]
       ELSE IF status = HEADER
       THEN [st EXCEPT !.updated = Append(@, gff_converted_line_dict[lc])]
       ELSE IF status = POSITION_REMOVED \/ status = SEQUENCE_REMOVED
       THEN [st EXCEPT !.removed = Append(@, gff_line_list[lc + 1]),
                       !.removed_count = @ + 1]
       ELSE st

RECURSIVE OutputLoop(_, _, _)
OutputLoop(st, regions, lc) ==
    IF lc >= Len(gff_line_list) THEN st
    ELSE OutputLoop(OutputLine(st, regions, lc), regions, lc + 1)

Absent == [exists |-> FALSE, updated |-> << >>, removed |-> << >>]

OutputFeatures ==
    /\ pc = "output"
    /\ LET regions == OutputSequenceRegion(alignment_list)
           st == OutputLoop(OutputStart, regions, 0)
       IN /\ sequence_regions' = regions
          /\ updated_count' = st.updated_count
          /\ removed_count' = st.removed_count
          /\ disk' = [disk EXCEPT ![fileIdx] =
                         [exists |-> TRUE, updated |-> st.updated, removed |-> st.removed]]
    /\ pc' = "main"
    /\ UNCHANGED <<source, srcRecords, srcOpen, alignment_list, alignment_dict,
                   gff_files, fileIdx, err, has_fasta, gff_line_root_list,
                   gff_root_line_dict, gff_id_line, feature_count,
                   gff_line_status_dict, gff_line_list, gff_converted_line_dict>>

Next ==
    \/ Construct
    \/ Update
    \/ FindRootFeatures
    \/ UpdateFeatures
    \/ OutputFeatures
    \/ Exit

(***************************************************************************)
(* Inputs.  Three families of command lines, one per specification.        *)
(***************************************************************************)
MaxLines == 3

MaxLinesTree == 4

MaxPos == 3

MaxRecs == 2

\* the lines s cut into files after each position of C
RECURSIVE SplitFrom(_, _, _)
SplitFrom(s, C, lo) ==
    IF lo > Len(s) THEN << >>
    ELSE LET hi == Min({c \in C \cup {Len(s)} : c >= lo})
         IN <<SubSeq(s, lo, hi)>> \o SplitFrom(s, C, hi + 1)

\* the command lines of non-empty files holding the lines s (one empty file if none)
CommandLines(s) ==
    IF s = << >> THEN {<< << >> >>}
    ELSE {SplitFrom(s, C, 1) : C \in SUBSET (1..(Len(s) - 1))}

\* chr1 and chr2 are renamed A and B; chrX is gone
TableMain == <<Record("chr1", 0, 2, "A", 0, 2), Record("chr2", 0, 2, "B", 10, 12)>>

\* an input ##sequence-region line with the text of the one synthesized for A
RegionInput == RegionLine("A", {0, 2})

\* a feature line is mapped to A or B, loses its end, or loses its sequence
ClassesMain == {<<"chr1", 2>>, <<"chr1", 3>>, <<"chr2", 2>>, <<"chrX", 2>>}

LinesMain ==
    {Comment("blank"), Comment("header"), Comment("fasta"), RegionInput}
    \cup {Feature(c[1], 1, c[2], a[1], a[2]) :
            c \in ClassesMain, a \in {<<"a", NoAttr>>, <<NoAttr, "a">>}}
    \cup {Feature("chr1", 1, 2, "a", "a")}

LinesTree ==
    {Comment("blank"), Comment("header")}
    \cup {Feature(c[1], 1, c[2], a[1], a[2]) :
            c \in {<<"chr1", 2>>, <<"chr1", 3>>, <<"chrX", 2>>},
            a \in {<<"a", NoAttr>>, <<NoAttr, "a">>, <<"b", "a">>, <<NoAttr, "b">>}}

\* blocks of chr1, each placed on A at offset 0 or 10, or on B at offset 10
RecordsMap ==
    {Record("chr1", b[1], b[2], t[1], t[2] + b[1], t[2] + b[2]) :
        b \in {c \in (0..MaxPos) \X (0..MaxPos) : c[1] < c[2]},
        t \in {<<"A", 0>>, <<"A", 10>>, <<"B", 10>>}}

\* one feature of chr1 at each place
LinesMap ==
    {Feature("chr1", p[1], p[2], NoAttr, NoAttr) :
        p \in {q \in (1..MaxPos) \X (1..MaxPos) : q[1] <= q[2]}}

\* the state before GffUpdater is constructed, given the inputs
InitRest ==
    /\ source \in {"path", "stream"}
    /\ srcOpen = (source = "stream")
    /\ alignment_list = << >>
    /\ alignment_dict = EmptyDict
    /\ fileIdx = 0
    /\ pc = "construct"
    /\ err = "none"
    /\ has_fasta = FALSE
    /\ gff_line_root_list = << >>
    /\ gff_root_line_dict = EmptyDict
    /\ gff_id_line = EmptyDict
    /\ feature_count = 0
    /\ gff_line_status_dict = EmptyDict
    /\ gff_line_list = << >>
    /\ gff_converted_line_dict = EmptyDict
    /\ sequence_regions = EmptyDict
    /\ updated_count = 0
    /\ removed_count = 0
    /\ disk = [i \in 1..Len(gff_files) |-> Absent]

\* one or more files of at most MaxLines lines in all, under TableMain
Init ==
    /\ srcRecords = TableMain
    /\ \E k \in 0..MaxLines : \E s \in [1..k -> LinesMain] :
          gff_files \in CommandLines(s)
    /\ InitRest

\* one file of at most MaxLinesTree feature lines, under TableMain
InitTree ==
    /\ srcRecords = TableMain
    /\ \E k \in 0..MaxLinesTree : \E f \in [1..k -> LinesTree] : gff_files = <<f>>
    /\ InitRest

\* one file of one feature, under every table of at most MaxRecs blocks
InitMap ==
    /\ \E n \in 0..MaxRecs : srcRecords \in [1..n -> RecordsMap]
    /\ \E f \in LinesMap : gff_files = << <<f>> >>
    /\ InitRest

Spec == Init /\ [][Next]_vars

SpecTree == InitTree /\ [][Next]_vars

SpecMap == InitMap /\ [][Next]_vars

(***************************************************************************)
(* What the claims speak of, read off the input file and the alignment     *)
(* TSV themselves.                                                         *)
(***************************************************************************)
Removed == {POSITION_REMOVED, SEQUENCE_REMOVED}

\* the physical lines of file before any ##FASTA line, blank ones left out
LiveIdx(file) ==
    {i \in DOMAIN file : /\ file[i].kind # "blank"
                         /\ \A j \in 1..i : file[j].kind # "fasta"}

\* the line number of physical line i: the non-blank lines before it
NumOf(file, i) == Cardinality({j \in LiveIdx(file) : j < i})

\* the physical place of the ##FASTA line met first, 0 if there is none
FastaAt(file) ==
    IF \E i \in DOMAIN file : file[i].kind = "fasta"
    THEN Min({i \in DOMAIN file : file[i].kind = "fasta"})
    ELSE 0

\* the line number the ##FASTA line gets
FastaNum(file) == Cardinality(LiveIdx(file))

FeatureIdx(file) == {i \in LiveIdx(file) : file[i].kind = "feature"}

\* how many records of seqid cover position p
CoverCount(seqid, p) ==
    Cardinality({i \in DOMAIN srcRecords :
                    /\ srcRecords[i].old_id = seqid
                    /\ srcRecords[i].old_start < p
                    /\ p <= srcRecords[i].old_end})

KnownSeq(seqid) == \E i \in DOMAIN srcRecords : srcRecords[i].old_id = seqid

\* a feature line that cannot be mapped: its start or end has not one covering record
PositionFails(line) ==
    /\ KnownSeq(line.seqid)
    /\ (CoverCount(line.seqid, line.start) # 1 \/ CoverCount(line.seqid, line.end) # 1)

\* the disposition of line number n, -1 while it has none
Tag(n) == IF n \in DOMAIN gff_line_status_dict THEN gff_line_status_dict[n] ELSE -1

\* the line numbers classified as features
FeatureNums == {n \in 0..(Len(gff_line_list) - 1) : gff_line_list[n + 1].kind = "feature"}

SameRoot(n, m) ==
    /\ n < Len(gff_line_root_list)
    /\ m < Len(gff_line_root_list)
    /\ gff_line_root_list[n + 1] = gff_line_root_list[m + 1]

\* the classification pass has just finished on gff_file
Classified == pc = "output"

\* the emission pass has just finished on gff_file
Emitted == pc \in {"main", "done"} /\ fileIdx >= 1

(***************************************************************************)
(* C1.  Subtree atomicity: when the classification pass has finished, a    *)
(* root-group holding a removed feature line holds only removed lines; no  *)
(* group is left with KEEP lines beside removed ones.                      *)
(***************************************************************************)
C1_SubtreeAtomicity ==
    Classified =>
        \A n \in FeatureNums : \A m \in FeatureNums :
            (SameRoot(n, m) /\ Tag(n) \in Removed) => Tag(m) \in Removed

\* a line that was converted (tagged KEEP) and then removed by a later sibling
C1_Witness ==
    /\ Classified
    /\ \E n \in FeatureNums : \E m \in FeatureNums :
          /\ n < m
          /\ SameRoot(n, m)
          /\ n \in DOMAIN gff_converted_line_dict
          /\ Tag(n) \in Removed
          /\ Tag(m) \in Removed

C3_NewIdOfStartMatch ==
    (Classified /\ Tag(0) = KEEP) =>
        \E i \in DOMAIN srcRecords :
            /\ srcRecords[i].old_id = gff_file[1].seqid
            /\ srcRecords[i].old_start < gff_file[1].start
            /\ gff_file[1].start <= srcRecords[i].old_end
            /\ gff_converted_line_dict[0].seqid = srcRecords[i].new_id

(***************************************************************************)
(* C4.  A feature is KEEP only if one and the same alignment block covers  *)
(* both its start and its end.                                             *)
(***************************************************************************)
C4_SingleBlock ==
    (Classified /\ Tag(0) = KEEP) =>
        \E i \in DOMAIN srcRecords :
            /\ srcRecords[i].old_id = gff_file[1].seqid
            /\ srcRecords[i].old_start < gff_file[1].start
            /\ gff_file[1].start <= srcRecords[i].old_end
            /\ srcRecords[i].old_start < gff_file[1].end
            /\ gff_file[1].end <= srcRecords[i].old_end

(***************************************************************************)
(* C5.  Conservation: after emission updated_count + removed_count is the  *)
(* number of feature lines before any ##FASTA line; updated_count is the   *)
(* number of feature lines in the updated file and removed_count the       *)
(* number of lines in the removed file, which holds feature lines only.    *)
(***************************************************************************)
CountKind(seq, kind) == Cardinality({k \in DOMAIN seq : seq[k].kind = kind})

C5_Conservation ==
    Emitted =>
        /\ disk[fileIdx].exists
        /\ updated_count + removed_count = Cardinality(FeatureIdx(gff_file))
        /\ updated_count = CountKind(disk[fileIdx].updated, "feature")
        /\ removed_count = Len(disk[fileIdx].removed)
        /\ removed_count = CountKind(disk[fileIdx].removed, "feature")

\* a file with an updated line, a removed line and a line that is counted in neither
C5_Witness ==
    /\ Emitted
    /\ updated_count >= 1
    /\ removed_count >= 1
    /\ Len(gff_file) > updated_count + removed_count

(***************************************************************************)
(* C6.  In the updated file the ##sequence-region line of a new_id occurs  *)
(* at most once; where it occurs, the next line is a feature line of that  *)
(* new_id and no feature line of that new_id comes before it; and every    *)
(* feature line has the region line of its new_id somewhere before it.     *)
(***************************************************************************)
RegionOnce(u) ==
    /\ \A j \in DOMAIN u : \A k \in DOMAIN u :
          (u[j].kind = "region" /\ u[k].kind = "region" /\ u[j].seqid = u[k].seqid)
              => j = k
    /\ \A j \in DOMAIN u :
          u[j].kind = "region" =>
              /\ j + 1 \in DOMAIN u
              /\ u[j + 1].kind = "feature"
              /\ u[j + 1].seqid = u[j].seqid
              /\ \A k \in 1..(j - 1) :
                    ~(u[k].kind = "feature" /\ u[k].seqid = u[j].seqid)
    /\ \A k \in DOMAIN u :
          u[k].kind = "feature" =>
              \E j \in 1..(k - 1) : u[j].kind = "region" /\ u[j].seqid = u[k].seqid

C6_RegionOnce == Emitted => RegionOnce(disk[fileIdx].updated)

\* two new_ids, the first of them written twice: region, feature, region, feature, feature
C6_Witness ==
    /\ Emitted
    /\ Len(disk[fileIdx].updated) = 5
    /\ CountKind(disk[fileIdx].updated, "region") = 2
    /\ disk[fileIdx].updated[5].seqid = disk[fileIdx].updated[1].seqid

(***************************************************************************)
(* C7.  A feature line whose sequence id has no record in the alignment    *)
(* TSV.  As claimed: every line of its root-group is SEQUENCE_REMOVED      *)
(* after classification.  As the program has it: every line of the group   *)
(* carries one removed tag, that of the first line of the group (in file   *)
(* order) that cannot be mapped: SEQUENCE_REMOVED if that line's sequence  *)
(* id is unknown, POSITION_REMOVED if its start or end is not covered by   *)
(* exactly one record.                                                     *)
(***************************************************************************)
UnknownSeqNums == {n \in FeatureNums : ~KnownSeq(gff_line_list[n + 1].seqid)}

GroupNums(n) == {m \in FeatureNums : SameRoot(n, m)}

\* the lines of the group of n that cannot be mapped on their own
FailingNums(n) ==
    {m \in GroupNums(n) : \/ ~KnownSeq(gff_line_list[m + 1].seqid)
                          \/ PositionFails(gff_line_list[m + 1])}

FirstFailureTag(n) ==
    IF KnownSeq(gff_line_list[Min(FailingNums(n)) + 1].seqid)
    THEN POSITION_REMOVED
    ELSE SEQUENCE_REMOVED

C7_UnknownSequence ==
    Classified =>
        \A n \in UnknownSeqNums : \A m \in GroupNums(n) : Tag(m) = SEQUENCE_REMOVED

C7_FirstFailureDecides ==
    Classified =>
        \A n \in UnknownSeqNums : \A m \in GroupNums(n) : Tag(m) = FirstFailureTag(n)

\* a converted line, then a sibling losing its end, then a sibling of unknown sequence
C7_Witness ==
    /\ Classified
    /\ \E n \in UnknownSeqNums : \E m \in GroupNums(n) : \E k \in GroupNums(n) :
          /\ k < m
          /\ m < n
          /\ k \in DOMAIN gff_converted_line_dict
          /\ PositionFails(gff_line_list[m + 1])
          /\ Tag(n) = POSITION_REMOVED

(***************************************************************************)
(* C8.  A feature line before any ##FASTA line that names a Parent no      *)
(* earlier feature line declared as ID: hierarchy discovery ends the run   *)
(* with an error, the file's two output files are not created, and every   *)
(* output file written before stays as it is.                              *)
(***************************************************************************)
UndeclaredParent(file) ==
    \E i \in FeatureIdx(file) :
        /\ file[i].Parent # NoAttr
        /\ ~\E j \in FeatureIdx(file) : j < i /\ file[j].ID = file[i].Parent

C8_UndeclaredParentFatal ==
    [][(pc = "find" /\ UndeclaredParent(gff_file)) =>
          /\ pc' = "error"
          /\ err' \in {"KeyError", "IndexError"}
          /\ ~disk'[fileIdx].exists
          /\ disk' = disk]_vars

\* the second file fails after the first was written
C8_Witness ==
    /\ pc = "error"
    /\ err = "KeyError"
    /\ fileIdx = 2
    /\ UndeclaredParent(gff_file)
    /\ disk[1].exists
    /\ Len(disk[1].updated) > 0
    /\ ~disk[2].exists

(***************************************************************************)
(* C9.  read_alignment_list_tsv returns the records of a path and of an    *)
(* open stream alike: once the constructor is over no error was raised,    *)
(* every record is in the list, a path's file is closed again and a        *)
(* stream is still open.                                                   *)
(***************************************************************************)
C9_LoadsPathAndStream ==
    pc # "construct" =>
        /\ err # "AttributeError"
        /\ alignment_list = srcRecords
        /\ srcOpen = (source = "stream")

(***************************************************************************)
(* C10.  ##FASTA truncation.  With N the line number of the ##FASTA line:  *)
(* as claimed, no structure has an entry for a line number >= N; as the    *)
(* program has it, root_of, members_of and the converted text do have the  *)
(* entry N of the ##FASTA line itself (a singleton group, its own text)    *)
(* and nothing beyond, while the dispositions and the stored original      *)
(* texts stop at N - 1 and neither output file holds the ##FASTA line or   *)
(* a line after it.  In both, the two passes number the lines before the   *)
(* marker alike.                                                           *)
(***************************************************************************)
\* line numbers of root_of / members_of / converted text stay below M, the others below N
TruncatedAt(N, M) ==
    /\ Len(gff_line_root_list) <= M
    /\ \A r \in DOMAIN gff_root_line_dict :
          r < M /\ \A k \in DOMAIN gff_root_line_dict[r] : gff_root_line_dict[r][k] < M
    /\ \A n \in DOMAIN gff_converted_line_dict : n < M
    /\ \A n \in DOMAIN gff_line_status_dict : n < N
    /\ Len(gff_line_list) <= N
    /\ Emitted =>
          /\ CountKind(disk[fileIdx].updated, "fasta") = 0
          /\ CountKind(disk[fileIdx].removed, "fasta") = 0
          /\ CountKind(disk[fileIdx].updated, "header")
                = Cardinality({i \in LiveIdx(gff_file) : gff_file[i].kind = "header"})
          /\ CountKind(disk[fileIdx].updated, "feature") + Len(disk[fileIdx].removed)
                = Cardinality(FeatureIdx(gff_file))

\* the hierarchy pass and the classification pass give each line the same number
NumbersAgree ==
    /\ \A i \in LiveIdx(gff_file) :
          LET n == NumOf(gff_file, i)
          IN /\ n < Len(gff_line_list)
             /\ gff_line_list[n + 1] = gff_file[i]
             /\ n < Len(gff_line_root_list)
             /\ IF gff_file[i].kind = "feature" /\ gff_file[i].Parent # NoAttr
                THEN gff_line_root_list[n + 1] < n
                ELSE gff_line_root_list[n + 1] = n
    /\ \A id \in DOMAIN gff_id_line :
          /\ gff_id_line[id] < Len(gff_line_list)
          /\ gff_line_list[gff_id_line[id] + 1].ID = id

\* the entries the ##FASTA line itself has
MarkerEntries(N) ==
    /\ Len(gff_line_root_list) = N + 1
    /\ gff_line_root_list[N + 1] = N
    /\ N \in DOMAIN gff_root_line_dict
    /\ gff_root_line_dict[N] = <<N>>
    /\ N \in DOMAIN gff_converted_line_dict
    /\ gff_converted_line_dict[N].kind = "fasta"
    /\ N \notin DOMAIN gff_line_status_dict
    /\ Len(gff_line_list) = N

C10_FastaExcluded ==
    ((Classified \/ Emitted) /\ FastaAt(gff_file) > 0) =>
        /\ TruncatedAt(FastaNum(gff_file), FastaNum(gff_file))
        /\ NumbersAgree

C10_FastaLineKept ==
    ((Classified \/ Emitted) /\ FastaAt(gff_file) > 0) =>
        /\ TruncatedAt(FastaNum(gff_file), FastaNum(gff_file) + 1)
        /\ MarkerEntries(FastaNum(gff_file))
        /\ NumbersAgree

\* a feature, the ##FASTA line, and a feature after it
C10_Witness ==
    /\ Emitted
    /\ Len(gff_file) = 3
    /\ FastaAt(gff_file) = 2
    /\ gff_file[1].kind = "feature"
    /\ gff_file[3].kind = "feature"
    /\ Len(disk[fileIdx].updated) + Len(disk[fileIdx].removed) > 0

====
